---- MODULE Spec2Model ----
(***************************************************************************)
(* Package ethernet: marshaling and unmarshaling of IEEE 802.3 Ethernet II *)
(* frames, IEEE 802.1Q VLAN tags and the IEEE CRC32 frame check sequence.  *)
(*                                                                         *)
(* A byte is a number in 0..255, a byte slice a sequence of bytes (nil and *)
(* the empty slice are both << >>), a uint16 a number in 0..65535.  A      *)
(* uint32 is kept as a record [hi, lo] of two 16-bit halves.               *)
(* src/ethernet.go holds two revisions of the file; the model follows the  *)
(* later one (lines 197-403), the only one with the FCS operations.        *)
(***************************************************************************)
EXTENDS Integers, Sequences, FiniteSets, TLC

VARIABLES g, f, call

vars == <<g, f, call>>

(***************************************************************************)
(* Program constants.                                                      *)
(***************************************************************************)
minPayload == 46

EtherTypeIPv4 == 2048

EtherTypeVLAN == 33024

VLANMax == 4095

Broadcast == <<255, 255, 255, 255, 255, 255>>

ErrNone == "nil"

ErrUnexpectedEOF == "io.ErrUnexpectedEOF"

ErrInvalidVLAN == "ErrInvalidVLAN"

ErrInvalidFCS == "ErrInvalidFCS"

\* the run-time panic of a slice expression out of range
ErrPanic == "panic: slice bounds out of range"

(***************************************************************************)
(* Machine arithmetic on fixed-width unsigned integers.                    *)
(***************************************************************************)
RECURSIVE BitOp(_, _, _, _)
\* op = "or" | "xor" on the low `bits` bits of a and b
BitOp(op, a, b, bits) ==
    IF bits = 0 THEN 0
    ELSE LET x == a % 2
             y == b % 2
             z == IF op = "or" THEN (IF x + y > 0 THEN 1 ELSE 0)
                  ELSE (x + y) % 2
         IN  z + 2 * BitOp(op, a \div 2, b \div 2, bits - 1)

Or16(a, b) == BitOp("or", a, b, 16)

RECURSIVE xorRows(_, _)
\* the xor of every pair of 4-bit values lo..hi taken as 16 * a + b, in order
xorRows(lo, hi) ==
    IF lo = hi THEN <<BitOp("xor", lo \div 16, lo % 16, 4)>>
    ELSE xorRows(lo, (lo + hi) \div 2) \o xorRows(((lo + hi) \div 2) + 1, hi)

xorNibble == xorRows(0, 255)

Xor8(a, b) ==
    16 * xorNibble[16 * (a \div 16) + (b \div 16) + 1]
        + xorNibble[16 * (a % 16) + (b % 16) + 1]

Xor16(a, b) == 256 * Xor8(a \div 256, b \div 256) + Xor8(a % 256, b % 256)

\* uint16(x) << k, truncated to 16 bits
Shl16(x, k) == (x * (2 ^ k)) % 65536

\* binary.BigEndian.PutUint16
PutUint16(w) == <<w \div 256, w % 256>>

\* binary.BigEndian.Uint16
Uint16(b) == b[1] * 256 + b[2]

\* make([]byte, n)
Zeros(n) == SubSeq([i \in 1..n |-> 0], 1, n)

\* copy(dst[off:], src): src written over dst from 0-based offset off, as
\* many bytes as fit
Copy(dst, off, src) ==
    LET k == IF Len(src) < Len(dst) - off THEN Len(src) ELSE Len(dst) - off
    IN  SubSeq(dst, 1, off) \o SubSeq(src, 1, k) \o SubSeq(dst, off + k + 1, Len(dst))

\* b[lo:hi] with 0-based bounds
Slice(b, lo, hi) == SubSeq(b, lo + 1, hi)

(***************************************************************************)
(* hash/crc32.ChecksumIEEE: the reflected CRC-32 of polynomial 0xedb88320, *)
(* table driven, initial value and final xor 0xffffffff.                   *)
(***************************************************************************)
Shr32(c, k) ==
    [hi |-> c.hi \div (2 ^ k),
     lo |-> (c.lo \div (2 ^ k)) + (c.hi % (2 ^ k)) * (2 ^ (16 - k))]

Xor32(c, d) == [hi |-> Xor16(c.hi, d.hi), lo |-> Xor16(c.lo, d.lo)]

IEEE == [hi |-> 60856, lo |-> 33568]

RECURSIVE crcEntry(_, _)
crcEntry(c, k) ==
    IF k = 0 THEN c
    ELSE crcEntry(IF c.lo % 2 = 1 THEN Xor32(Shr32(c, 1), IEEE) ELSE Shr32(c, 1),
                  k - 1)

RECURSIVE crcEntries(_, _)
\* the table entries of the bytes lo..hi, in order
crcEntries(lo, hi) ==
    IF lo = hi THEN <<crcEntry([hi |-> 0, lo |-> lo], 8)>>
    ELSE crcEntries(lo, (lo + hi) \div 2) \o crcEntries(((lo + hi) \div 2) + 1, hi)

\* crcTable[x + 1] is the entry of byte x
crcTable == crcEntries(0, 255)

\* one step of the table-driven update: the byte x into the running value c
crcStep(c, x) == Xor32(crcTable[Xor8(c.lo % 256, x) + 1], Shr32(c, 8))

RECURSIVE crcUpdate(_, _, _, _)
\* the update loop over b[lo..hi] (1-based, inclusive), split in halves
crcUpdate(c, b, lo, hi) ==
    IF lo > hi THEN c
    ELSE IF lo = hi THEN crcStep(c, b[lo])
    ELSE LET mid == (lo + hi) \div 2
         IN  CHOOSE r \in {crcUpdate(left, b, mid + 1, hi) :
                               left \in {crcUpdate(c, b, lo, mid)}} : TRUE

ChecksumIEEE(b) ==
    LET ones == [hi |-> 65535, lo |-> 65535]
    IN  CHOOSE sum \in {Xor32(crcUpdate(ones, bytes, 1, Len(bytes)), ones) :
                            bytes \in {b}} : TRUE

\* binary.BigEndian.PutUint32
PutUint32(c) == PutUint16(c.hi) \o PutUint16(c.lo)

\* binary.BigEndian.Uint32
Uint32(b) == [hi |-> Uint16(SubSeq(b, 1, 2)), lo |-> Uint16(SubSeq(b, 3, 4))]

(***************************************************************************)
(* VLAN tag codec (vlan.go).  A VLAN is [Priority: uint8, DropEligible:    *)
(* BOOLEAN, ID: uint16].                                                   *)
(***************************************************************************)
ZeroVLAN == [Priority |-> 0, DropEligible |-> FALSE, ID |-> 0]

\* VLAN.MarshalBinary with the range check off by one: ID > VLANMax
VLANMarshalBinary_offByOne(v) ==
    IF v.ID > VLANMax
    THEN [b |-> <<>>, err |-> ErrInvalidVLAN]
    ELSE LET drop == IF v.DropEligible THEN 1 ELSE 0
             ub   == Or16(Or16(Shl16(v.Priority, 13), Shl16(drop, 12)), v.ID)
         IN  [b |-> PutUint16(ub), err |-> ErrNone]

\* (v *VLAN) MarshalBinary() ([]byte, error)
VLANMarshalBinary(v) ==
    IF v.ID >= VLANMax
    THEN [b |-> <<>>, err |-> ErrInvalidVLAN]
    ELSE LET drop == IF v.DropEligible THEN 1 ELSE 0
             ub   == Or16(Or16(Shl16(v.Priority, 13), Shl16(drop, 12)), v.ID)
         IN  [b |-> PutUint16(ub), err |-> ErrNone]

\* VLAN.UnmarshalBinary with the drop eligible bit read with mask 0x2000
VLANUnmarshalBinary_dropBit(v, b) ==
    IF Len(b) # 2
    THEN [v |-> v, err |-> ErrUnexpectedEOF]
    ELSE LET ub == Uint16(b)
             w  == [Priority     |-> ub \div 8192,
                    DropEligible |-> (ub \div 8192) % 2 = 1,
                    ID           |-> ub % 4096]
         IN  [v |-> w, err |-> IF w.ID >= VLANMax THEN ErrInvalidVLAN ELSE ErrNone]

\* (v *VLAN) UnmarshalBinary(b []byte) error; v is the receiver before the
\* call, the result holds the receiver after it
VLANUnmarshalBinary(v, b) ==
    IF Len(b) # 2
    THEN [v |-> v, err |-> ErrUnexpectedEOF]
    ELSE LET ub == Uint16(b)
             w  == [Priority     |-> ub \div 8192,
                    DropEligible |-> (ub \div 4096) % 2 = 1,
                    ID           |-> ub % 4096]
         IN  [v |-> w, err |-> IF w.ID >= VLANMax THEN ErrInvalidVLAN ELSE ErrNone]

\* (v *VLAN) read(b []byte) (int, error): called by Frame.read, its source
\* is not part of src/; it writes what VLAN.MarshalBinary returns
VLANread(v) == VLANMarshalBinary(v)

(***************************************************************************)
(* Frame codec (ethernet.go, lines 197-403).  A Frame is [Destination,     *)
(* Source: bytes, VLAN: sequence of VLAN, EtherType: uint16, Payload].     *)
(***************************************************************************)
ZeroFrame ==
    [Destination |-> <<>>, Source |-> <<>>, VLAN |-> <<>>, EtherType |-> 0,
     Payload |-> <<>>]

\* Frame.length without the padding to minPayload
length_noPad(fr) == 6 + 6 + (4 * Len(fr.VLAN)) + 2 + Len(fr.Payload)

\* (f *Frame) length() int
length(fr) ==
    LET pl == IF Len(fr.Payload) < minPayload THEN minPayload ELSE Len(fr.Payload)
    IN  6 + 6 + (4 * Len(fr.VLAN)) + 2 + pl

RECURSIVE readVLANs(_, _, _, _)
\* the range loop of Frame.read over f.VLAN, from tag i at offset n
readVLANs(fr, b, i, n) ==
    IF i > Len(fr.VLAN) THEN [b |-> b, n |-> n, err |-> ErrNone]
    ELSE LET b1 == Copy(b, n, PutUint16(EtherTypeVLAN))
             r  == VLANread(fr.VLAN[i])
         IN  IF r.err # ErrNone THEN [b |-> b1, n |-> n, err |-> r.err]
             ELSE readVLANs(fr, Copy(b1, n + 2, r.b), i + 1, n + 4)

\* (f *Frame) read(b []byte) (int, error); the result also holds b as the
\* call leaves it
read(fr, b) ==
    LET b1 == Copy(b, 0, SubSeq(fr.Destination, 1, 6))
        b2 == Copy(b1, 6, SubSeq(fr.Source, 1, 6))
    IN  CHOOSE res \in
            {IF r.err # ErrNone THEN [n |-> 0, err |-> r.err, b |-> r.b]
             ELSE [n   |-> Len(b),
                   err |-> ErrNone,
                   b   |-> Copy(Copy(r.b, r.n, PutUint16(fr.EtherType)), r.n + 2,
                                fr.Payload)] :
                r \in {readVLANs(fr, b2, 1, 12)}} : TRUE

\* (f *Frame) MarshalBinary() ([]byte, error)
MarshalBinary(fr) ==
    CHOOSE res \in {[b |-> r.b, err |-> r.err] : r \in {read(fr, Zeros(length(fr)))}} : TRUE

\* Frame.MarshalFCS with the checksum taken over all of b, the four bytes
\* kept for it included
MarshalFCS_sumAll(fr) ==
    CHOOSE res \in
        {IF r.err # ErrNone THEN [b |-> <<>>, err |-> r.err]
         ELSE [b   |-> Copy(r.b, Len(r.b) - 4, PutUint32(ChecksumIEEE(r.b))),
               err |-> ErrNone] :
            r \in {read(fr, Zeros(length(fr) + 4))}} : TRUE

\* (f *Frame) MarshalFCS() ([]byte, error)
MarshalFCS(fr) ==
    CHOOSE res \in
        {IF r.err # ErrNone THEN [b |-> <<>>, err |-> r.err]
         ELSE [b   |-> Copy(r.b, Len(r.b) - 4,
                            PutUint32(ChecksumIEEE(Slice(r.b, 0, Len(r.b) - 4)))),
               err |-> ErrNone] :
            r \in {read(fr, Zeros(length(fr) + 4))}} : TRUE

\* the slice expression b[lo:hi] is in range, for a buffer whose capacity is
\* its length; out of range it panics
InRange(b, lo, hi) == 0 <= lo /\ lo <= hi /\ hi <= Len(b)

RECURSIVE parseVLANs_twoRemain(_, _, _, _)
\* the VLAN loop asking for 2 bytes after a VLAN marker, as the earlier
\* revision did (ethernet.go line 142), where the step reads 4
parseVLANs_twoRemain(V, b, n, et) ==
    IF et # EtherTypeVLAN THEN [VLAN |-> V, n |-> n, et |-> et, err |-> ErrNone]
    ELSE IF Len(b) - n < 2 THEN [VLAN |-> V, n |-> n, et |-> et, err |-> ErrUnexpectedEOF]
    ELSE IF ~InRange(b, n, n + 2) THEN [VLAN |-> V, n |-> n, et |-> et, err |-> ErrPanic]
    ELSE LET r == VLANUnmarshalBinary(ZeroVLAN, Slice(b, n, n + 2))
         IN  IF r.err # ErrNone THEN [VLAN |-> V, n |-> n, et |-> et, err |-> r.err]
             ELSE IF ~InRange(b, n + 2, n + 4)
                  THEN [VLAN |-> Append(V, r.v), n |-> n, et |-> et, err |-> ErrPanic]
             ELSE parseVLANs_twoRemain(Append(V, r.v), b, n + 4,
                                       Uint16(Slice(b, n + 2, n + 4)))

RECURSIVE parseVLANs(_, _, _, _)
\* the VLAN loop of Frame.UnmarshalBinary: V is f.VLAN, n the offset, et the
\* EtherType read last; the result holds n and et as the loop left them
parseVLANs(V, b, n, et) ==
    IF et # EtherTypeVLAN THEN [VLAN |-> V, n |-> n, et |-> et, err |-> ErrNone]
    ELSE IF Len(b) - n < 4 THEN [VLAN |-> V, n |-> n, et |-> et, err |-> ErrUnexpectedEOF]
    ELSE IF ~InRange(b, n, n + 2) THEN [VLAN |-> V, n |-> n, et |-> et, err |-> ErrPanic]
    ELSE LET r == VLANUnmarshalBinary(ZeroVLAN, Slice(b, n, n + 2))
         IN  IF r.err # ErrNone THEN [VLAN |-> V, n |-> n, et |-> et, err |-> r.err]
             ELSE IF ~InRange(b, n + 2, n + 4)
                  THEN [VLAN |-> Append(V, r.v), n |-> n, et |-> et, err |-> ErrPanic]
             ELSE parseVLANs(Append(V, r.v), b, n + 4, Uint16(Slice(b, n + 2, n + 4)))

\* Frame.UnmarshalBinary with the minimum payload length of the earlier
\* revision (ethernet.go lines 169-188) put back
UnmarshalBinary_minPayload(fr, b) ==
    IF Len(b) < 14 THEN [f |-> fr, err |-> ErrUnexpectedEOF]
    ELSE CHOOSE res \in
             {IF c.err # ErrNone
              THEN [f |-> [fr EXCEPT !.VLAN = c.VLAN], err |-> c.err]
              ELSE LET r   == Len(b) - c.n
                       vl0 == IF Len(c.VLAN) > 1 THEN 1 ELSE Len(c.VLAN)
                       vl  == IF vl0 = 0 /\ minPayload - r = 4 THEN 1 ELSE vl0
                   IN  IF r < minPayload - (vl * 4)
                       THEN [f   |-> [fr EXCEPT !.VLAN = c.VLAN, !.EtherType = c.et],
                             err |-> ErrUnexpectedEOF]
                       ELSE [f   |-> [Destination |-> Slice(b, 0, 6),
                                      Source      |-> Slice(b, 6, 12),
                                      VLAN        |-> c.VLAN,
                                      EtherType   |-> c.et,
                                      Payload     |-> Slice(b, c.n, Len(b))],
                             err |-> ErrNone] :
                 c \in {parseVLANs(fr.VLAN, b, 14, Uint16(Slice(b, 12, 14)))}} : TRUE

\* Frame.UnmarshalBinary with the length check off by one: len(b) <= 14
UnmarshalBinary_offByOne(fr, b) ==
    IF Len(b) <= 14 THEN [f |-> fr, err |-> ErrUnexpectedEOF]
    ELSE CHOOSE res \in
             {IF c.err # ErrNone
              THEN [f |-> [fr EXCEPT !.VLAN = c.VLAN], err |-> c.err]
              ELSE [f   |-> [Destination |-> Slice(b, 0, 6),
                             Source      |-> Slice(b, 6, 12),
                             VLAN        |-> c.VLAN,
                             EtherType   |-> c.et,
                             Payload     |-> Slice(b, c.n, Len(b))],
                    err |-> ErrNone] :
                 c \in {parseVLANs(fr.VLAN, b, 14, Uint16(Slice(b, 12, 14)))}} : TRUE

\* (f *Frame) UnmarshalBinary(b []byte) error; fr is the receiver before the
\* call, the result holds the receiver after it
UnmarshalBinary(fr, b) ==
    IF Len(b) < 14 THEN [f |-> fr, err |-> ErrUnexpectedEOF]
    ELSE CHOOSE res \in
             {IF c.err # ErrNone
              THEN [f |-> [fr EXCEPT !.VLAN = c.VLAN], err |-> c.err]
              ELSE [f   |-> [Destination |-> Slice(b, 0, 6),
                             Source      |-> Slice(b, 6, 12),
                             VLAN        |-> c.VLAN,
                             EtherType   |-> c.et,
                             Payload     |-> Slice(b, c.n, Len(b))],
                    err |-> ErrNone] :
                 c \in {parseVLANs(fr.VLAN, b, 14, Uint16(Slice(b, 12, 14)))}} : TRUE

\* Frame.UnmarshalFCS unmarshalling the body before it verifies the checksum
UnmarshalFCS_decodeFirst(fr, b) ==
    IF Len(b) < 4 THEN [f |-> fr, err |-> ErrUnexpectedEOF]
    ELSE LET want == Uint32(Slice(b, Len(b) - 4, Len(b)))
             got  == ChecksumIEEE(Slice(b, 0, Len(b) - 4))
         IN  CHOOSE res \in
                 {IF r.err # ErrNone THEN r
                  ELSE IF want # got THEN [f |-> r.f, err |-> ErrInvalidFCS]
                  ELSE r :
                     r \in {UnmarshalBinary(fr, Slice(b, 0, Len(b) - 4))}} : TRUE

\* (f *Frame) UnmarshalFCS(b []byte) error
UnmarshalFCS(fr, b) ==
    IF Len(b) < 4 THEN [f |-> fr, err |-> ErrUnexpectedEOF]
    ELSE LET want == Uint32(Slice(b, Len(b) - 4, Len(b)))
             got  == ChecksumIEEE(Slice(b, 0, Len(b) - 4))
         IN  IF want # got THEN [f |-> fr, err |-> ErrInvalidFCS]
             ELSE UnmarshalBinary(fr, Slice(b, 0, Len(b) - 4))

(***************************************************************************)
(* Bounds and the inputs drawn within them.                                *)
(***************************************************************************)
\* longest VLAN chain of a frame to marshal and of a buffer to unmarshal
MaxTags == 2

\* longest payload of a frame to marshal
MaxPayload == 47

\* a Frame holding more VLAN tags than this is not unmarshalled into again
MaxRetained == 2

Station == <<0, 1, 2, 3, 4, 5>>

TagA == [Priority |-> 5, DropEligible |-> TRUE, ID |-> 1]

TagB == [Priority |-> 7, DropEligible |-> FALSE, ID |-> 4094]

\* two valid tags, a tag with the reserved ID, a tag with a priority above 7
FrameTags ==
    {TagA, TagB,
     [Priority |-> 0, DropEligible |-> FALSE, ID |-> 4095],
     [Priority |-> 9, DropEligible |-> FALSE, ID |-> 2]}

Chains(T) == UNION {[1..k -> T] : k \in 0..MaxTags}

\* n payload bytes, none of them zero
Pay(n) == SubSeq([i \in 1..n |-> ((i * 7) % 255) + 1], 1, n)

PayloadLens == {0, minPayload - 1, minPayload, MaxPayload}

\* the frames marshalled under Spec
Frames ==
    {[Destination |-> Broadcast, Source |-> Station, VLAN |-> c, EtherType |-> et,
      Payload |-> Pay(n)] :
        c \in Chains(FrameTags), et \in {EtherTypeIPv4, EtherTypeVLAN}, n \in PayloadLens}

\* the tags of the frames marshalled under SpecVLAN
AllTags ==
    [Priority : {0, 7, 255}, DropEligible : BOOLEAN, ID : {VLANMax - 1, VLANMax}]

TagFrames ==
    {[Destination |-> Broadcast, Source |-> Station, VLAN |-> c,
      EtherType |-> EtherTypeIPv4, Payload |-> Pay(2)] : c \in Chains(AllTags)}

\* the two bytes of a tag as a sender that checks nothing packs them
Pack(v) ==
    PutUint16((8192 * (v.Priority % 8)) + (4096 * (IF v.DropEligible THEN 1 ELSE 0))
                  + (v.ID % 4096))

RECURSIVE PackChain(_, _)
PackChain(c, i) ==
    IF i > Len(c) THEN <<>>
    ELSE PutUint16(EtherTypeVLAN) \o Pack(c[i]) \o PackChain(c, i + 1)

\* the bytes of a frame on the wire, from a sender that checks nothing and
\* pads nothing
OnWire(fr) ==
    fr.Destination \o fr.Source \o PackChain(fr.VLAN, 1) \o PutUint16(fr.EtherType)
        \o fr.Payload

\* the chain of t valid tags
ValidChain(t) == [i \in 1..t |-> IF i % 2 = 1 THEN TagA ELSE TagB]

RawFrame(c, n) ==
    [Destination |-> Station, Source |-> Broadcast, VLAN |-> c,
     EtherType |-> EtherTypeIPv4, Payload |-> Pay(n)]

TailLens == {0, minPayload - 5, minPayload - 4, minPayload}

\* buffers whose header and VLAN chain parse: t valid tags, r payload bytes
WholeBuffers == {OnWire(RawFrame(ValidChain(t), r)) : t \in 0..MaxTags, r \in TailLens}

\* buffers whose last tag has the reserved ID
BadTagBuffers ==
    {OnWire(RawFrame(Append(ValidChain(t), [TagB EXCEPT !.ID = VLANMax]), minPayload)) :
        t \in 0..(MaxTags - 1)}

\* buffers cut k bytes after the last VLAN marker, and buffers of less than 14
\* bytes
CutBuffers ==
    {SubSeq(OnWire(RawFrame(ValidChain(t), 0)), 1, 14 + 4 * (t - 1) + k) :
        t \in 1..MaxTags, k \in 0..3}
    \cup {SubSeq(OnWire(RawFrame(<<>>, 0)), 1, n) : n \in {0, 13}}

\* the buffers unmarshalled under SpecDec
RawBuffers == WholeBuffers \cup BadTagBuffers \cup CutBuffers

\* b followed by its frame check sequence
WithFCS(b) == b \o PutUint32(ChecksumIEEE(b))

\* b followed by four bytes that are not its frame check sequence
WithBadFCS(b) == b \o PutUint32(Xor32(ChecksumIEEE(b), [hi |-> 0, lo |-> 1]))

FCSBodies ==
    {OnWire(RawFrame(ValidChain(t), r)) : t \in {0, MaxTags}, r \in {0, minPayload}}
    \cup BadTagBuffers
    \cup {SubSeq(OnWire(RawFrame(ValidChain(1), 0)), 1, n) : n \in {0, 13, 16}}

FCSBuffers ==
    {WithFCS(b) : b \in FCSBodies} \cup {WithBadFCS(b) : b \in FCSBodies}
    \cup {<<>>, <<1, 2, 3>>}

(***************************************************************************)
(* The calls.  g is the Frame the caller marshals, f the Frame it          *)
(* unmarshals into, call the last call: its operation, its argument (in,   *)
(* or the VLAN v), what it returned (out, err, or the VLAN v) and the      *)
(* receiver f before it (pre); from tells where the argument came from.    *)
(***************************************************************************)
NoCall ==
    [op |-> "none", in |-> <<>>, from |-> "none", v |-> ZeroVLAN, out |-> <<>>,
     err |-> ErrNone, pre |-> ZeroFrame]

\* f = new(Frame)
NewFrame ==
    /\ f # ZeroFrame
    /\ f' = ZeroFrame
    /\ call' = [NoCall EXCEPT !.op = "new", !.pre = f]
    /\ UNCHANGED g

\* b, err := g.MarshalBinary()
CallMarshalBinary ==
    /\ \E r \in {MarshalBinary(g)} :
           call' = [NoCall EXCEPT !.op = "MarshalBinary", !.out = r.b, !.err = r.err,
                                  !.pre = f]
    /\ UNCHANGED <<g, f>>

\* b, err := g.MarshalFCS()
CallMarshalFCS ==
    /\ \E r \in {MarshalFCS(g)} :
           call' = [NoCall EXCEPT !.op = "MarshalFCS", !.out = r.b, !.err = r.err,
                                  !.pre = f]
    /\ UNCHANGED <<g, f>>

\* err := f.UnmarshalBinary(b)
CallUnmarshalBinary(b, from) ==
    /\ Len(f.VLAN) <= MaxRetained
    /\ \E r \in {UnmarshalBinary(f, b)} :
           /\ f' = r.f
           /\ call' = [NoCall EXCEPT !.op = "UnmarshalBinary", !.in = b, !.from = from,
                                     !.err = r.err, !.pre = f]
    /\ UNCHANGED g

\* err := f.UnmarshalFCS(b)
CallUnmarshalFCS(b, from) ==
    /\ Len(f.VLAN) <= MaxRetained
    /\ \E r \in {UnmarshalFCS(f, b)} :
           /\ f' = r.f
           /\ call' = [NoCall EXCEPT !.op = "UnmarshalFCS", !.in = b, !.from = from,
                                     !.err = r.err, !.pre = f]
    /\ UNCHANGED g

\* b, err := g.VLAN[i].MarshalBinary()
CallVLANMarshalBinary(i) ==
    /\ \E r \in {VLANMarshalBinary(g.VLAN[i])} :
           call' = [NoCall EXCEPT !.op = "VLAN.MarshalBinary", !.v = g.VLAN[i],
                                  !.out = r.b, !.err = r.err, !.pre = f]
    /\ UNCHANGED <<g, f>>

\* v := new(VLAN); err := v.UnmarshalBinary(b)
CallVLANUnmarshalBinary(b) ==
    /\ \E r \in {VLANUnmarshalBinary(ZeroVLAN, b)} :
           call' = [NoCall EXCEPT !.op = "VLAN.UnmarshalBinary", !.in = b, !.v = r.v,
                                  !.err = r.err, !.pre = f]
    /\ UNCHANGED <<g, f>>

\* the last call marshalled a frame and returned no error
Marshalled == call.op \in {"MarshalBinary", "MarshalFCS"} /\ call.err = ErrNone

\* unmarshal what the last call marshalled
UnmarshalMarshalled ==
    /\ Marshalled
    /\ CallUnmarshalBinary(call.out, call.op)

UnmarshalFCSMarshalled ==
    /\ Marshalled
    /\ CallUnmarshalFCS(call.out, call.op)

(***************************************************************************)
(* Spec: a frame is marshalled and what was marshalled is unmarshalled.    *)
(***************************************************************************)
Init ==
    /\ g \in Frames
    /\ f = ZeroFrame
    /\ call = NoCall

Next ==
    \/ NewFrame
    \/ CallMarshalBinary
    \/ CallMarshalFCS
    \/ UnmarshalMarshalled
    \/ UnmarshalFCSMarshalled

Spec == Init /\ [][Next]_vars

(***************************************************************************)
(* SpecDec: buffers off the wire are unmarshalled, whole, cut short, with  *)
(* reserved VLAN IDs, with right and wrong frame check sequences.          *)
(***************************************************************************)
InitDec ==
    /\ g = ZeroFrame
    /\ f = ZeroFrame
    /\ call = NoCall

UnmarshalRaw == \E b \in RawBuffers : CallUnmarshalBinary(b, "raw")

UnmarshalFCSRaw == \E b \in FCSBuffers : CallUnmarshalFCS(b, "raw")

NextDec ==
    \/ NewFrame
    \/ UnmarshalRaw
    \/ UnmarshalFCSRaw

SpecDec == InitDec /\ [][NextDec]_vars

(***************************************************************************)
(* SpecVLAN: the tags of a frame are marshalled and unmarshalled one by    *)
(* one and within the frame, with and without the reserved ID.             *)
(***************************************************************************)
InitVLAN ==
    /\ g \in TagFrames
    /\ f = ZeroFrame
    /\ call = NoCall

MarshalTag == \E i \in 1..Len(g.VLAN) : CallVLANMarshalBinary(i)

UnmarshalTag ==
    \E i \in 1..Len(g.VLAN) : \E b \in {Pack(g.VLAN[i]), SubSeq(Pack(g.VLAN[i]), 1, 1)} :
        CallVLANUnmarshalBinary(b)

UnmarshalOnWire == CallUnmarshalBinary(OnWire(g), "wire")

NextVLAN ==
    \/ NewFrame
    \/ MarshalTag
    \/ UnmarshalTag
    \/ CallMarshalBinary
    \/ UnmarshalOnWire

SpecVLAN == InitVLAN /\ [][NextVLAN]_vars

(***************************************************************************)
(* What the claims speak of.                                               *)
(***************************************************************************)
Tags(fr) == {fr.VLAN[i] : i \in 1..Len(fr.VLAN)}

ValidIDs(fr) == \A v \in Tags(fr) : v.ID >= 0 /\ v.ID <= VLANMax - 1

ValidPriorities(fr) == \A v \in Tags(fr) : v.Priority <= 7

\* a payload as it comes back: followed by zero bytes up to 46 when shorter
Padded(p) == IF Len(p) < minPayload THEN p \o Zeros(minPayload - Len(p)) ELSE p

Returned(fr) == [fr EXCEPT !.Payload = Padded(fr.Payload)]

\* the last call unmarshalled, with `op`, what `from` had marshalled from g,
\* into a Frame that held no VLAN tags
RoundTrip(op, from) ==
    /\ call.op = op
    /\ call.from = from
    /\ call.pre.VLAN = <<>>

\* C1 as claimed: for every Frame whose VLAN tags all have 0 <= ID <= 4094,
\* with any EtherType and any VLAN chain, MarshalBinary succeeds and
\* UnmarshalBinary of the bytes it returned succeeds and yields the frame,
\* its payload zero-padded to 46 bytes when shorter.
C1_RoundTripAsClaimed ==
    /\ (call.op = "MarshalBinary" /\ ValidIDs(g)) => call.err = ErrNone
    /\ (RoundTrip("UnmarshalBinary", "MarshalBinary") /\ ValidIDs(g))
           => (call.err = ErrNone /\ f = Returned(g))

\* C1 amended: the same for every Frame whose VLAN tags all have
\* 0 <= ID <= 4094 and Priority <= 7 and whose EtherType is not the VLAN
\* marker 0x8100, unmarshalled into a Frame that holds no VLAN tags.
C1_RoundTrip ==
    /\ (call.op = "MarshalBinary" /\ ValidIDs(g)) => call.err = ErrNone
    /\ (/\ RoundTrip("UnmarshalBinary", "MarshalBinary")
        /\ ValidIDs(g)
        /\ ValidPriorities(g)
        /\ g.EtherType # EtherTypeVLAN)
           => (call.err = ErrNone /\ f = Returned(g))

C1_Witness ==
    /\ RoundTrip("UnmarshalBinary", "MarshalBinary")
    /\ ValidIDs(g)
    /\ ValidPriorities(g)
    /\ g.EtherType # EtherTypeVLAN
    /\ Len(g.VLAN) = MaxTags
    /\ g.VLAN[1] # g.VLAN[2]
    /\ Len(g.Payload) = minPayload - 1
    /\ Len(f.Payload) = minPayload
    /\ f.VLAN = g.VLAN

\* C2: whenever Frame.MarshalBinary or Frame.MarshalFCS returns an error,
\* the byte slice it returns is nil.
C2_NoPartialBuffer ==
    (call.op \in {"MarshalBinary", "MarshalFCS"} /\ call.err # ErrNone)
        => call.out = <<>>

\* the length the claim C7 gives for the encoding of fr
EncodedLen(fr) ==
    12 + (4 * Len(fr.VLAN)) + 2
        + (IF Len(fr.Payload) > minPayload THEN Len(fr.Payload) ELSE minPayload)

\* C7: for every Frame that encodes successfully, MarshalBinary returns
\* exactly 12 + 4 * (number of VLAN tags) + 2 + max(len(payload), 46) bytes
\* and MarshalFCS exactly 4 bytes more.
C7_EncodedLength ==
    /\ (call.op = "MarshalBinary" /\ call.err = ErrNone)
           => Len(call.out) = EncodedLen(g)
    /\ (call.op = "MarshalFCS" /\ call.err = ErrNone)
           => Len(call.out) = EncodedLen(g) + 4

C7_Witness ==
    /\ call.op = "MarshalFCS"
    /\ call.err = ErrNone
    /\ Len(g.VLAN) = MaxTags
    /\ Len(g.Payload) = MaxPayload
    /\ Len(call.out) = 12 + (4 * MaxTags) + 2 + MaxPayload + 4

\* the last four bytes of b are the big-endian IEEE CRC32 of exactly the
\* bytes MarshalBinary returns for fr
TrailerOf(b, fr) ==
    /\ Slice(b, 0, Len(b) - 4) = MarshalBinary(fr).b
    /\ Slice(b, Len(b) - 4, Len(b)) = PutUint32(ChecksumIEEE(MarshalBinary(fr).b))

\* C9 as claimed: for every Frame whose VLAN tags all have 0 <= ID <= 4094,
\* MarshalFCS succeeds, its last 4 bytes are the CRC32 of what MarshalBinary
\* returns, and UnmarshalFCS of its bytes succeeds and yields the frame, its
\* payload zero-padded to 46 bytes when shorter.
C9_RoundTripFCSAsClaimed ==
    /\ (call.op = "MarshalFCS" /\ ValidIDs(g))
           => (call.err = ErrNone /\ TrailerOf(call.out, g))
    /\ (RoundTrip("UnmarshalFCS", "MarshalFCS") /\ ValidIDs(g))
           => (call.err = ErrNone /\ f = Returned(g))

\* C9 amended: the same for every Frame whose VLAN tags all have
\* 0 <= ID <= 4094 and Priority <= 7 and whose EtherType is not the VLAN
\* marker 0x8100, unmarshalled into a Frame that holds no VLAN tags.
C9_RoundTripFCS ==
    /\ (call.op = "MarshalFCS" /\ ValidIDs(g))
           => (call.err = ErrNone /\ TrailerOf(call.out, g))
    /\ (/\ RoundTrip("UnmarshalFCS", "MarshalFCS")
        /\ ValidIDs(g)
        /\ ValidPriorities(g)
        /\ g.EtherType # EtherTypeVLAN)
           => (call.err = ErrNone /\ f = Returned(g))

C9_Witness ==
    /\ RoundTrip("UnmarshalFCS", "MarshalFCS")
    /\ ValidIDs(g)
    /\ ValidPriorities(g)
    /\ g.EtherType # EtherTypeVLAN
    /\ Len(g.VLAN) = MaxTags
    /\ Len(g.Payload) = 0
    /\ Len(call.in) = EncodedLen(g) + 4
    /\ f = Returned(g)

\* C10: Frame.MarshalBinary returns ErrInvalidVLAN and no bytes whenever a
\* VLAN tag of the frame has a Priority above 7, for every tag ID in 0..4094.
C10_PriorityRejected ==
    (call.op = "MarshalBinary" /\ ValidIDs(g) /\ ~ValidPriorities(g))
        => (call.err = ErrInvalidVLAN /\ call.out = <<>>)

\* C3: whenever Frame.UnmarshalBinary returns an error, every field of the
\* receiving Frame is the same as before the call.
C3_NoPartialFrame ==
    (call.op = "UnmarshalBinary" /\ call.err # ErrNone) => f = call.pre

\* the VLAN loop over b alone, for a buffer of 14 bytes or more
Chain(b) == parseVLANs(<<>>, b, 14, Uint16(Slice(b, 12, 14)))

\* the header and the VLAN chain of b parse without error
ChainParses(b) == Len(b) >= 14 /\ Chain(b).err = ErrNone

\* the tags the stripped-tag rule counts, with t tags decoded and r payload
\* bytes
Counted(t, r) == IF t >= 1 \/ (t = 0 /\ r = minPayload - 4) THEN 1 ELSE 0

\* C4 as claimed: for a buffer whose header and VLAN chain parse, with t tags
\* decoded and r bytes after the terminal EtherType, UnmarshalBinary succeeds
\* if and only if r >= 46 - 4 * c, c the counted tags, and fails with
\* io.ErrUnexpectedEOF otherwise.
C4_StrippedTagRuleAsClaimed ==
    (call.op = "UnmarshalBinary" /\ ChainParses(call.in))
        => LET t == Len(Chain(call.in).VLAN)
               r == Len(call.in) - Chain(call.in).n
           IN  IF r >= minPayload - 4 * Counted(t, r)
               THEN call.err = ErrNone
               ELSE call.err = ErrUnexpectedEOF

\* C4 amended: for a buffer whose header and VLAN chain parse, with t tags
\* decoded and r bytes after the terminal EtherType, UnmarshalBinary succeeds
\* for every r >= 0, whatever t is, and the payload is those r bytes: no
\* minimum payload length is asked for.
C4_NoMinimumPayload ==
    (call.op = "UnmarshalBinary" /\ ChainParses(call.in))
        => /\ call.err = ErrNone
           /\ f.Payload = Slice(call.in, Chain(call.in).n, Len(call.in))

C4_Witness ==
    /\ call.op = "UnmarshalBinary"
    /\ ChainParses(call.in)
    /\ Len(Chain(call.in).VLAN) = MaxTags
    /\ Len(call.in) - Chain(call.in).n = minPayload - 5
    /\ call.err = ErrNone
    /\ Len(f.Payload) = minPayload - 5

BadFCS(b) ==
    Len(b) >= 4
        /\ Slice(b, Len(b) - 4, Len(b)) # PutUint32(ChecksumIEEE(Slice(b, 0, Len(b) - 4)))

\* C8: for every buffer of at least 4 bytes whose last 4 bytes differ from
\* the IEEE CRC32 of the bytes before them, UnmarshalFCS fails with
\* ErrInvalidFCS and leaves the receiving Frame as it was, whatever error
\* the body would give; a buffer shorter than 4 bytes fails with
\* io.ErrUnexpectedEOF.
C8_FCSFirst ==
    /\ (call.op = "UnmarshalFCS" /\ BadFCS(call.in))
           => (call.err = ErrInvalidFCS /\ f = call.pre)
    /\ (call.op = "UnmarshalFCS" /\ Len(call.in) < 4)
           => (call.err = ErrUnexpectedEOF /\ f = call.pre)

C8_Witness ==
    /\ call.op = "UnmarshalFCS"
    /\ BadFCS(call.in)
    /\ call.in \in {WithBadFCS(b) : b \in BadTagBuffers}
    /\ call.pre.VLAN # <<>>
    /\ call.err = ErrInvalidFCS
    /\ f = call.pre

\* C6: VLAN.MarshalBinary of a tag with ID 4095 fails with ErrInvalidVLAN and
\* with ID 4094 succeeds, for every priority and drop eligible value;
\* VLAN.UnmarshalBinary of 2 bytes whose low 12 bits are all ones fails with
\* ErrInvalidVLAN and of 2 bytes whose low 12 bits are 0xffe succeeds;
\* Frame.MarshalBinary and Frame.UnmarshalBinary return ErrInvalidVLAN when a
\* tag with ID 4095 is anywhere in the VLAN chain.
C6_InvalidVLAN ==
    /\ (call.op = "VLAN.MarshalBinary" /\ call.v.ID = VLANMax)
           => call.err = ErrInvalidVLAN
    /\ (call.op = "VLAN.MarshalBinary" /\ call.v.ID = VLANMax - 1)
           => (call.err = ErrNone /\ Len(call.out) = 2)
    /\ (call.op = "VLAN.UnmarshalBinary" /\ Len(call.in) = 2
            /\ Uint16(call.in) % 4096 = VLANMax)
           => call.err = ErrInvalidVLAN
    /\ (call.op = "VLAN.UnmarshalBinary" /\ Len(call.in) = 2
            /\ Uint16(call.in) % 4096 = VLANMax - 1)
           => (call.err = ErrNone /\ call.v.ID = VLANMax - 1)
    /\ (call.op = "MarshalBinary" /\ \E v \in Tags(g) : v.ID = VLANMax)
           => call.err = ErrInvalidVLAN
    /\ (call.op = "UnmarshalBinary" /\ call.from = "wire"
            /\ \E v \in Tags(g) : v.ID = VLANMax)
           => call.err = ErrInvalidVLAN

C6_Witness ==
    /\ call.op = "UnmarshalBinary"
    /\ call.from = "wire"
    /\ Len(g.VLAN) = MaxTags
    /\ g.VLAN[1].ID = VLANMax - 1
    /\ g.VLAN[MaxTags].ID = VLANMax
    /\ g.VLAN[MaxTags].Priority = 7
    /\ call.err = ErrInvalidVLAN

\* the VLAN loop as the last call ran it: over the tags the receiver held
Loop == parseVLANs(call.pre.VLAN, call.in, 14, Uint16(Slice(call.in, 12, 14)))

\* the loop of the last call stopped at a VLAN marker with fewer than 4 bytes
\* after it
CutAtMarker ==
    /\ call.op = "UnmarshalBinary"
    /\ Len(call.in) >= 14
    /\ Loop.et = EtherTypeVLAN
    /\ Len(call.in) - Loop.n < 4

\* C11: for every buffer of 14 bytes or more, no step of the VLAN loop of
\* UnmarshalBinary takes a slice out of the buffer's range (no panic), the
\* cursor stays within the buffer, and when the EtherType read last is the
\* VLAN marker 0x8100 and 0, 1, 2 or 3 bytes remain from the cursor,
\* UnmarshalBinary fails with io.ErrUnexpectedEOF.
C11_CursorSafety ==
    /\ (call.op = "UnmarshalBinary" /\ Len(call.in) >= 14)
           => /\ call.err # ErrPanic
              /\ Loop.err # ErrPanic
              /\ Loop.n <= Len(call.in)
    /\ CutAtMarker => (call.err = ErrUnexpectedEOF /\ Loop.err = ErrUnexpectedEOF)

\* a buffer cut 3 bytes after its second VLAN marker was unmarshalled: the
\* first tag was read, the second step failed
C11_Witness ==
    /\ CutAtMarker
    /\ Loop.n = 18
    /\ Len(call.in) - Loop.n = 3
    /\ call.err = ErrUnexpectedEOF
    /\ Len(f.VLAN) = Len(call.pre.VLAN) + 1

\* C12: after any sequence of UnmarshalBinary calls on the same Frame, a
\* successful decode of a buffer holding k consecutive VLAN markers, each
\* followed by a valid tag, and then another EtherType leaves the Frame with
\* exactly those k tags in wire order and a terminal EtherType that is not
\* the VLAN marker; tags of earlier decodes are not retained.
C12_ChainEqualsWire ==
    (call.op = "UnmarshalBinary" /\ call.err = ErrNone /\ ChainParses(call.in))
        => /\ f.VLAN = Chain(call.in).VLAN
           /\ f.EtherType # EtherTypeVLAN

====
